---- MODULE Spec2Model ----
(***************************************************************************)
(* logind session object on the bus (src/login/logind-session-dbus.c):     *)
(* the controller slot of a session, its table of device leases, and the   *)
(* mapping between session identifiers and object paths.                   *)
(*                                                                         *)
(* The request handlers are translated from logind-session-dbus.c.  The    *)
(* session primitives they call (session_is_controller,                    *)
(* session_set_controller, session_drop_controller, session_device_new,    *)
(* session_device_free, session_device_complete_pause, bus_path_escape,    *)
(* bus_path_unescape) live in other files of the tree; they are modelled    *)
(* from the design description of the components that own them.            *)
(***************************************************************************)
EXTENDS Integers, Sequences, FiniteSets, TLC

VARIABLES
    controller,   \* Session.controller: bus name of the controller, or NoController
    devices,      \* Session.devices: the lease entries (SessionDevice records)
    fds,          \* device handles currently open on behalf of the session
    last,         \* the request handled last and the reply it produced
    sessions,     \* Manager.sessions: identifiers of the sessions in the table
    found,        \* the last session_object_find call and what it returned
    nodes,        \* the last session_node_enumerator call and what it returned
    pausing,      \* devices whose pause was announced and is not yet acknowledged
    alive,        \* the Session object exists (it has not been freed)
    taker,        \* for each lease of the table, the sender whose TakeDevice made it
    idle_hint,            \* Session.idle_hint
    idle_hint_timestamp,  \* Session.idle_hint_timestamp (realtime, monotonic)
    now,                  \* the clock
    client,               \* the idle timestamps a client has read so far
    started,      \* Session.started
    emitted,      \* the bus signal sent last
    create_message,  \* the sessions whose create_message holds a pending request
    replies          \* for each session ever asked for, the replies sent so far

vars == <<controller, devices, fds, last, sessions, found, nodes, pausing, alive, taker,
          idle_hint, idle_hint_timestamp, now, client, started, emitted,
          create_message, replies>>

\* the variables of the lease table, of the session table, of the idle hint
\* and of the signals
devVars == <<controller, devices, fds, pausing, alive, taker>>
addrVars == <<sessions, found, nodes>>
idleVars == <<idle_hint, idle_hint_timestamp, now, client>>
sigVars == <<started, emitted>>
createVars == <<create_message, replies>>

----------------------------------------------------------------------------
(* Bounds of the model *)

\* minor numbers 0..MaxMinor are requested
MaxMinor == 0

\* at most MaxSessions sessions are in the manager's table at a time
MaxSessions == 2

\* the clock runs from 1 to MaxTime
MaxTime == 2

----------------------------------------------------------------------------
(* Callers *)

NoController == "none"

\* bus names of the connections that send requests
Senders == {"A", "B", "D", "R"}

\* s->user->uid of the session
OwnerUid == 1000

\* sd_bus_get_owner_uid(): A and B are connections of the session's owner,
\* D belongs to another unprivileged user, R to root
sd_bus_get_owner_uid(sender) ==
    CASE sender = "A" -> OwnerUid
      [] sender = "B" -> OwnerUid
      [] sender = "D" -> OwnerUid + 1
      [] sender = "R" -> 0

Majors == {8, 13}
Minors == 0 .. MaxMinor

\* the devices requested: (8, 0 .. MaxMinor) and (13, 0)
DevIds == {d \in Majors \X Minors : d[1] = 8 \/ d[2] = 0}

\* makedev(): glibc packs the two 32-bit numbers into a 64-bit dev_t without
\* losing a bit, so a dev_t is the pair
makedev(major, minor) == <<major, minor>>

----------------------------------------------------------------------------
(* Session primitives *)

NoDevice == [dev |-> <<-1, -1>>, fd |-> -1, active |-> FALSE]

\* streq_ptr(s->controller, sender)
session_is_controller(c, sender) == c # NoController /\ c = sender

\* hashmap_get(s->devices, &dev): the entry keyed dev, or NULL
hashmap_get(h, dev) ==
    IF \E sd \in h : sd.dev = dev
    THEN CHOOSE sd \in h : sd.dev = dev
    ELSE NoDevice

\* the handle open() hands out: the lowest one not in use
LowestFree(o) ==
    CHOOSE n \in 0 .. Cardinality(o) : n \notin o /\ \A k \in 0 .. n - 1 : k \in o

\* session_device_new(): the entry it creates for dev, active when the
\* session is in the foreground
session_device_new(o, dev, act) == [dev |-> dev, fd |-> LowestFree(o), active |-> act]

\* hashmap_put(s->devices, &sd->dev, sd)
hashmap_put(h, sd) == h \cup {sd}

\* session_device_free(): the entry leaves the table ...
session_device_free(h, sd) == h \ {sd}

\* ... and its handle is closed
close_nointr_nofail(o, sd) == o \ {sd.fd}

\* session_device_complete_pause(): an active device is stopped
session_device_complete_pause(h, sd) ==
    IF sd.active THEN (h \ {sd}) \cup {[sd EXCEPT !.active = FALSE]} ELSE h

\* session_device_resume_all(): every stopped device is started again
session_device_resume_all(h) == {[sd EXCEPT !.active = TRUE] : sd \in h}

Sess(c, h, o) == [controller |-> c, devices |-> h, fds |-> o]

\* session_drop_controller(): the binding is cleared and every device of the
\* controller is freed
session_drop_controller(c, h, o) ==
    IF c = NoController THEN Sess(c, h, o) ELSE Sess(NoController, {}, {})

\* session_free() leaving the devices of the session open
session_free_devices_kept(c, h, o) == Sess(NoController, h, o)

\* session_free(): the controller is dropped and every device is freed
session_free(c, h, o) ==
    LET s == session_drop_controller(c, h, o)
    IN  Sess(s.controller, {}, {})

\* session_set_controller(): 0 and the session it leaves, or a negative errno
session_set_controller(c, h, o, sender, force) ==
    IF session_is_controller(c, sender) THEN [r |-> "ok", s |-> Sess(c, h, o)]
    ELSE IF c # NoController /\ ~force THEN [r |-> "EACCES", s |-> Sess(c, h, o)]
    ELSE [r |-> "ok",
          s |-> [session_drop_controller(c, h, o) EXCEPT !.controller = sender]]

\* sd_bus_reply_method_errno(): the error a negative errno is reported as
reply_method_errno(r) == IF r = "EACCES" THEN "AccessDenied" ELSE "Errno"

----------------------------------------------------------------------------
(* Session addressing.  A string is the sequence of its character codes. *)

\* "/org/freedesktop/login1/session/"
SessionPrefix ==
    <<47, 111, 114, 103, 47, 102, 114, 101, 101, 100, 101, 115, 107, 116, 111, 112,
      47, 108, 111, 103, 105, 110, 49,
      47, 115, 101, 115, 115, 105, 111, 110, 47>>

\* "/org/freedesktop/login1/session/self"
SelfPath == SessionPrefix \o <<115, 101, 108, 102>>

\* identifiers a session may carry: "c1", "2", "self", "a_b", "_5f", "x-1"
SessionIds == {<<99, 49>>, <<50>>, <<115, 101, 108, 102>>, <<97, 95, 98>>, <<95, 53, 102>>, <<120, 45, 49>>}

\* paths asked for that session_bus_path() produces for no identifier:
\* "/org/freedesktop/login1/seat/c1", "/org/freedesktop/login1/session/_",
\* "/org/freedesktop/login1/session/c_zz"
OtherPaths == {<<47, 111, 114, 103, 47, 102, 114, 101, 101, 100, 101, 115, 107, 116, 111, 112, 47, 108, 111, 103, 105, 110, 49, 47, 115, 101, 97, 116, 47, 99, 49>>, SessionPrefix \o <<95>>, SessionPrefix \o <<99, 95, 122, 122>>}

NoSession == <<0>>

IsAlnum(c, first) ==
    \/ c \in 65 .. 90
    \/ c \in 97 .. 122
    \/ (~first /\ c \in 48 .. 57)

\* hexchar(): the digit of the low four bits of x
hexchar(x) == IF (x % 16) < 10 THEN 48 + (x % 16) ELSE 97 + ((x % 16) - 10)

\* unhexchar(): the value of a hexadecimal digit, or a negative number
unhexchar(c) ==
    IF c \in 48 .. 57 THEN c - 48
    ELSE IF c \in 97 .. 102 THEN c - 97 + 10
    ELSE IF c \in 65 .. 70 THEN c - 65 + 10
    ELSE -1

RECURSIVE EscapeFrom(_, _)
EscapeFrom(str, i) ==
    IF i > Len(str) THEN <<>>
    ELSE (IF IsAlnum(str[i], i = 1)
          THEN <<str[i]>>
          ELSE <<95, hexchar(str[i] \div 16), hexchar(str[i])>>) \o EscapeFrom(str, i + 1)

\* bus_path_escape(): everything but letters and non-leading digits becomes
\* _XX; the empty string becomes "_"
bus_path_escape(str) == IF str = <<>> THEN <<95>> ELSE EscapeFrom(str, 1)

RECURSIVE UnescapeFrom(_, _)
UnescapeFrom(f, i) ==
    IF i > Len(f) THEN <<>>
    ELSE IF f[i] = 95
         THEN LET a == IF i + 1 <= Len(f) THEN unhexchar(f[i + 1]) ELSE -1
                  b == IF i + 2 <= Len(f) THEN unhexchar(f[i + 2]) ELSE -1
              IN  IF a < 0 \/ b < 0
                  THEN <<95>> \o UnescapeFrom(f, i + 1)
                  ELSE <<a * 16 + b>> \o UnescapeFrom(f, i + 3)
         ELSE <<f[i]>> \o UnescapeFrom(f, i + 1)

\* bus_path_unescape(): _XX becomes the character, a malformed escape is taken
\* literally; "_" is the empty string
bus_path_unescape(f) == IF f = <<95>> THEN <<>> ELSE UnescapeFrom(f, 1)

\* startswith(): what follows the prefix, or NULL
HasPrefix(str, prefix) ==
    Len(str) >= Len(prefix) /\ SubSeq(str, 1, Len(prefix)) = prefix

StripPrefix(str, prefix) == SubSeq(str, Len(prefix) + 1, Len(str))

\* session_bus_path(): the object path of the session with identifier id
session_bus_path(id) == SessionPrefix \o bus_path_escape(id)

\* the caller as session_object_find() sees it: is a message being dispatched,
\* does the bus know the sender's pid, the session that pid belongs to, and
\* whether memory can be allocated
Callers(tbl) ==
    [current : BOOLEAN, pidOk : BOOLEAN, pidSession : tbl \cup {NoSession}, memOk : BOOLEAN]

Found(r, session) == [r |-> r, session |-> session]

\* session_object_find() passing on the error of sd_bus_get_owner_pid()
session_object_find_pid_error(tbl, path, caller) ==
    IF path = SelfPath
    THEN IF ~caller.current THEN Found(0, NoSession)
         ELSE IF ~caller.pidOk THEN Found(-3, NoSession)
         ELSE IF caller.pidSession = NoSession THEN Found(0, NoSession)
         ELSE Found(1, caller.pidSession)
    ELSE IF ~HasPrefix(path, SessionPrefix) THEN Found(0, NoSession)
         ELSE IF ~caller.memOk THEN Found(-12, NoSession)
         ELSE LET e == bus_path_unescape(StripPrefix(path, SessionPrefix))
              IN  IF e \notin tbl THEN Found(0, NoSession) ELSE Found(1, e)

\* session_object_find(): 1 and the session, 0 for nothing found, or -ENOMEM
session_object_find(tbl, path, caller) ==
    IF path = SelfPath
    THEN IF ~caller.current THEN Found(0, NoSession)
         ELSE IF ~caller.pidOk THEN Found(0, NoSession)
         ELSE IF caller.pidSession = NoSession THEN Found(0, NoSession)
         ELSE Found(1, caller.pidSession)
    ELSE IF ~HasPrefix(path, SessionPrefix) THEN Found(0, NoSession)
         ELSE IF ~caller.memOk THEN Found(-12, NoSession)
         ELSE LET e == bus_path_unescape(StripPrefix(path, SessionPrefix))
              IN  IF e \notin tbl THEN Found(0, NoSession) ELSE Found(1, e)

NoLookup == [path |-> <<>>, caller |-> 0, r |-> 0, session |-> NoSession]

\* the orders in which HASHMAP_FOREACH may visit the sessions of the table
Orders(tbl) ==
    {o \in [1 .. Cardinality(tbl) -> tbl] : \A i, j \in DOMAIN o : o[i] = o[j] => i = j}

Enumeration(r, l, set) == [r |-> r, nodes |-> l, set |-> set]

\* the loop of session_node_enumerator() from the i-th session on, l being the
\* list so far; the allocation numbered failAt fails (session_bus_path() of
\* the i-th session is allocation 2i-1, strv_push() of its path is 2i)
RECURSIVE EnumerateFrom(_, _, _, _)
EnumerateFrom(order, i, l, failAt) ==
    IF i > Len(order) THEN Enumeration(1, l, TRUE)
    ELSE IF failAt = 2 * i - 1 THEN Enumeration(-12, <<>>, FALSE)
    ELSE IF failAt = 2 * i THEN Enumeration(-12, <<>>, FALSE)
    ELSE EnumerateFrom(order, i + 1, Append(l, session_bus_path(order[i])), failAt)

\* the loop going on to the next session when an allocation fails
RECURSIVE EnumerateSkipping(_, _, _, _)
EnumerateSkipping(order, i, l, failAt) ==
    IF i > Len(order) THEN Enumeration(1, l, TRUE)
    ELSE IF failAt = 2 * i - 1 THEN EnumerateSkipping(order, i + 1, l, failAt)
    ELSE IF failAt = 2 * i THEN EnumerateSkipping(order, i + 1, l, failAt)
    ELSE EnumerateSkipping(order, i + 1, Append(l, session_bus_path(order[i])), failAt)

\* session_node_enumerator() that skips a session it cannot allocate for
session_node_enumerator_skipping(order, failAt) == EnumerateSkipping(order, 1, <<>>, failAt)

\* session_node_enumerator(): 1 and the list in *nodes, or a negative errno
\* with *nodes left alone
session_node_enumerator(order, failAt) == EnumerateFrom(order, 1, <<>>, failAt)

NoEnumeration == [order |-> <<>>, failAt |-> 0, r |-> 0, nodes |-> <<>>, set |-> FALSE]

NothingRead == [realtime |-> -1, monotonic |-> -1]

NoSignal == [signal |-> "none", started |-> FALSE]

----------------------------------------------------------------------------
(* Requests *)

\* the record of a request: what was asked, by whom, the controller it met
\* (before), whether the caller's uid could be resolved, and the reply
Request(op, sender, force, major, minor, resolved, before, reply, fd, inactive) ==
    [op |-> op, sender |-> sender, force |-> force, major |-> major, minor |-> minor,
     resolved |-> resolved, before |-> before, reply |-> reply, fd |-> fd,
     inactive |-> inactive]

NoRequest == Request("none", "none", FALSE, -1, -1, TRUE, NoController, "none", -1, FALSE)

\* the record of a request about the binding says how many leases the table
\* held when the request came
CtlRequest(op, sender, force, resolved, reply) ==
    Request(op, sender, force, -1, -1, resolved, controller, reply, -1, FALSE)
        @@ [num |-> Cardinality(devices)]

DevRequest(op, sender, major, minor, reply) ==
    Request(op, sender, FALSE, major, minor, TRUE, controller, reply, -1, FALSE)

Unchanged == UNCHANGED <<controller, devices, fds>>

\* method_take_control with the force flag left out of the privilege check
method_take_control_force_unchecked(sender, force, uidOk) ==
    LET uid == sd_bus_get_owner_uid(sender)
        res == session_set_controller(controller, devices, fds, sender, force)
    IN  IF ~uidOk
        THEN last' = CtlRequest("TakeControl", sender, force, FALSE, "Errno") /\ Unchanged
        ELSE IF uid # 0 /\ uid # OwnerUid
        THEN last' = CtlRequest("TakeControl", sender, force, TRUE, "AccessDenied") /\ Unchanged
        ELSE IF res.r # "ok"
        THEN last' = CtlRequest("TakeControl", sender, force, TRUE,
                                reply_method_errno(res.r))
             /\ Unchanged
        ELSE /\ last' = CtlRequest("TakeControl", sender, force, TRUE, "OK")
             /\ controller' = res.s.controller
             /\ devices' = res.s.devices
             /\ fds' = res.s.fds

\* method_take_control handing session_set_controller a constant true as force
method_take_control_always_force(sender, force, uidOk) ==
    LET uid == sd_bus_get_owner_uid(sender)
        res == session_set_controller(controller, devices, fds, sender, TRUE)
    IN  IF ~uidOk
        THEN last' = CtlRequest("TakeControl", sender, force, FALSE, "Errno") /\ Unchanged
        ELSE IF uid # 0 /\ (force \/ uid # OwnerUid)
        THEN last' = CtlRequest("TakeControl", sender, force, TRUE, "AccessDenied") /\ Unchanged
        ELSE IF res.r # "ok"
        THEN last' = CtlRequest("TakeControl", sender, force, TRUE,
                                reply_method_errno(res.r))
             /\ Unchanged
        ELSE /\ last' = CtlRequest("TakeControl", sender, force, TRUE, "OK")
             /\ controller' = res.s.controller
             /\ devices' = res.s.devices
             /\ fds' = res.s.fds

\* method_take_control dropping the controller before it denies a forced request
method_take_control_denied_evicts(sender, force, uidOk) ==
    LET uid == sd_bus_get_owner_uid(sender)
        res == session_set_controller(controller, devices, fds, sender, force)
        s == session_drop_controller(controller, devices, fds)
    IN  IF ~uidOk
        THEN last' = CtlRequest("TakeControl", sender, force, FALSE, "Errno") /\ Unchanged
        ELSE IF uid # 0 /\ (force \/ uid # OwnerUid)
        THEN /\ last' = CtlRequest("TakeControl", sender, force, TRUE, "AccessDenied")
             /\ controller' = IF force THEN s.controller ELSE controller
             /\ devices' = IF force THEN s.devices ELSE devices
             /\ fds' = IF force THEN s.fds ELSE fds
        ELSE IF res.r # "ok"
        THEN last' = CtlRequest("TakeControl", sender, force, TRUE,
                                reply_method_errno(res.r))
             /\ Unchanged
        ELSE /\ last' = CtlRequest("TakeControl", sender, force, TRUE, "OK")
             /\ controller' = res.s.controller
             /\ devices' = res.s.devices
             /\ fds' = res.s.fds

\* TakeControl(force)
method_take_control(sender, force, uidOk) ==
    LET uid == sd_bus_get_owner_uid(sender)
        res == session_set_controller(controller, devices, fds, sender, force)
    IN  IF ~uidOk
        THEN last' = CtlRequest("TakeControl", sender, force, FALSE, "Errno") /\ Unchanged
        ELSE IF uid # 0 /\ (force \/ uid # OwnerUid)
        THEN last' = CtlRequest("TakeControl", sender, force, TRUE, "AccessDenied") /\ Unchanged
        ELSE IF res.r # "ok"
        THEN last' = CtlRequest("TakeControl", sender, force, TRUE,
                                reply_method_errno(res.r))
             /\ Unchanged
        ELSE /\ last' = CtlRequest("TakeControl", sender, force, TRUE, "OK")
             /\ controller' = res.s.controller
             /\ devices' = res.s.devices
             /\ fds' = res.s.fds

\* method_release_control without the session_is_controller() test
method_release_control_unchecked(sender) ==
    LET s == session_drop_controller(controller, devices, fds)
    IN  /\ last' = CtlRequest("ReleaseControl", sender, FALSE, TRUE, "OK")
        /\ controller' = s.controller
        /\ devices' = s.devices
        /\ fds' = s.fds

\* method_release_control replying without calling session_drop_controller()
method_release_control_no_drop(sender) ==
    IF ~session_is_controller(controller, sender)
    THEN last' = CtlRequest("ReleaseControl", sender, FALSE, TRUE, "NotController")
         /\ Unchanged
    ELSE last' = CtlRequest("ReleaseControl", sender, FALSE, TRUE, "OK") /\ Unchanged

\* ReleaseControl()
method_release_control(sender) ==
    LET s == session_drop_controller(controller, devices, fds)
    IN  IF ~session_is_controller(controller, sender)
        THEN last' = CtlRequest("ReleaseControl", sender, FALSE, TRUE, "NotController")
             /\ Unchanged
        ELSE /\ last' = CtlRequest("ReleaseControl", sender, FALSE, TRUE, "OK")
             /\ controller' = s.controller
             /\ devices' = s.devices
             /\ fds' = s.fds

\* method_take_device without the hashmap_get() test for an existing lease
method_take_device_no_lookup(sender, major, minor, openOk, act, sendOk) ==
    LET dev == makedev(major, minor)
        new == session_device_new(fds, dev, act)
    IN  IF ~session_is_controller(controller, sender)
        THEN last' = DevRequest("TakeDevice", sender, major, minor, "NotController")
             /\ Unchanged
        ELSE IF ~openOk
        THEN last' = DevRequest("TakeDevice", sender, major, minor, "Errno") /\ Unchanged
        ELSE IF sendOk
        THEN /\ last' = Request("TakeDevice", sender, FALSE, major, minor, TRUE, controller,
                                "OK", new.fd, ~new.active)
             /\ devices' = hashmap_put(devices, new)
             /\ fds' = fds \cup {new.fd}
             /\ UNCHANGED controller
        ELSE /\ last' = DevRequest("TakeDevice", sender, major, minor, "ReplyFailed")
             /\ devices' = session_device_free(hashmap_put(devices, new), new)
             /\ fds' = close_nointr_nofail(fds \cup {new.fd}, new)
             /\ UNCHANGED controller

\* method_take_device looking the device up before testing the controller
method_take_device_lookup_first(sender, major, minor, openOk, act, sendOk) ==
    LET dev == makedev(major, minor)
        sd == hashmap_get(devices, dev)
        new == session_device_new(fds, dev, act)
    IN  IF sd # NoDevice
        THEN last' = DevRequest("TakeDevice", sender, major, minor, "DeviceAlreadyTaken")
             /\ Unchanged
        ELSE IF ~session_is_controller(controller, sender)
        THEN last' = DevRequest("TakeDevice", sender, major, minor, "NotController")
             /\ Unchanged
        ELSE IF ~openOk
        THEN last' = DevRequest("TakeDevice", sender, major, minor, "Errno") /\ Unchanged
        ELSE IF sendOk
        THEN /\ last' = Request("TakeDevice", sender, FALSE, major, minor, TRUE, controller,
                                "OK", new.fd, ~new.active)
             /\ devices' = hashmap_put(devices, new)
             /\ fds' = fds \cup {new.fd}
             /\ UNCHANGED controller
        ELSE /\ last' = DevRequest("TakeDevice", sender, major, minor, "ReplyFailed")
             /\ devices' = session_device_free(hashmap_put(devices, new), new)
             /\ fds' = close_nointr_nofail(fds \cup {new.fd}, new)
             /\ UNCHANGED controller

\* method_take_device keeping the new lease when the reply cannot be sent
method_take_device_no_rollback(sender, major, minor, openOk, act, sendOk) ==
    LET dev == makedev(major, minor)
        sd == hashmap_get(devices, dev)
        new == session_device_new(fds, dev, act)
    IN  IF ~session_is_controller(controller, sender)
        THEN last' = DevRequest("TakeDevice", sender, major, minor, "NotController")
             /\ Unchanged
        ELSE IF sd # NoDevice
        THEN last' = DevRequest("TakeDevice", sender, major, minor, "DeviceAlreadyTaken")
             /\ Unchanged
        ELSE IF ~openOk
        THEN last' = DevRequest("TakeDevice", sender, major, minor, "Errno") /\ Unchanged
        ELSE /\ last' = IF sendOk
                        THEN Request("TakeDevice", sender, FALSE, major, minor, TRUE,
                                     controller, "OK", new.fd, ~new.active)
                        ELSE DevRequest("TakeDevice", sender, major, minor, "ReplyFailed")
             /\ devices' = hashmap_put(devices, new)
             /\ fds' = fds \cup {new.fd}
             /\ UNCHANGED controller

\* method_take_device without the session_is_controller() test
method_take_device_unchecked(sender, major, minor, openOk, act, sendOk) ==
    LET dev == makedev(major, minor)
        sd == hashmap_get(devices, dev)
        new == session_device_new(fds, dev, act)
    IN  IF sd # NoDevice
        THEN last' = DevRequest("TakeDevice", sender, major, minor, "DeviceAlreadyTaken")
             /\ Unchanged
        ELSE IF ~openOk
        THEN last' = DevRequest("TakeDevice", sender, major, minor, "Errno") /\ Unchanged
        ELSE IF sendOk
        THEN /\ last' = Request("TakeDevice", sender, FALSE, major, minor, TRUE, controller,
                                "OK", new.fd, ~new.active)
             /\ devices' = hashmap_put(devices, new)
             /\ fds' = fds \cup {new.fd}
             /\ UNCHANGED controller
        ELSE /\ last' = DevRequest("TakeDevice", sender, major, minor, "ReplyFailed")
             /\ devices' = session_device_free(hashmap_put(devices, new), new)
             /\ fds' = close_nointr_nofail(fds \cup {new.fd}, new)
             /\ UNCHANGED controller

\* TakeDevice(major, minor)
method_take_device(sender, major, minor, openOk, act, sendOk) ==
    LET dev == makedev(major, minor)
        sd == hashmap_get(devices, dev)
        new == session_device_new(fds, dev, act)
    IN  IF ~session_is_controller(controller, sender)
        THEN last' = DevRequest("TakeDevice", sender, major, minor, "NotController")
             /\ Unchanged
        ELSE IF sd # NoDevice
        THEN last' = DevRequest("TakeDevice", sender, major, minor, "DeviceAlreadyTaken")
             /\ Unchanged
        ELSE IF ~openOk
        THEN last' = DevRequest("TakeDevice", sender, major, minor, "Errno") /\ Unchanged
        ELSE IF sendOk
        THEN /\ last' = Request("TakeDevice", sender, FALSE, major, minor, TRUE, controller,
                                "OK", new.fd, ~new.active)
             /\ devices' = hashmap_put(devices, new)
             /\ fds' = fds \cup {new.fd}
             /\ UNCHANGED controller
        ELSE /\ last' = DevRequest("TakeDevice", sender, major, minor, "ReplyFailed")
             /\ devices' = session_device_free(hashmap_put(devices, new), new)
             /\ fds' = close_nointr_nofail(fds \cup {new.fd}, new)
             /\ UNCHANGED controller

\* method_release_device closing the handle but leaving the entry in the table
method_release_device_entry_kept(sender, major, minor) ==
    LET dev == makedev(major, minor)
        sd == hashmap_get(devices, dev)
    IN  IF ~session_is_controller(controller, sender)
        THEN last' = DevRequest("ReleaseDevice", sender, major, minor, "NotController")
             /\ Unchanged
        ELSE IF sd = NoDevice
        THEN last' = DevRequest("ReleaseDevice", sender, major, minor, "DeviceNotTaken")
             /\ Unchanged
        ELSE /\ last' = DevRequest("ReleaseDevice", sender, major, minor, "OK")
             /\ fds' = close_nointr_nofail(fds, sd)
             /\ UNCHANGED <<controller, devices>>

\* method_release_device giving up the binding with the last device
method_release_device_drops_binding(sender, major, minor) ==
    LET dev == makedev(major, minor)
        sd == hashmap_get(devices, dev)
    IN  IF ~session_is_controller(controller, sender)
        THEN last' = DevRequest("ReleaseDevice", sender, major, minor, "NotController")
             /\ Unchanged
        ELSE IF sd = NoDevice
        THEN last' = DevRequest("ReleaseDevice", sender, major, minor, "DeviceNotTaken")
             /\ Unchanged
        ELSE /\ last' = DevRequest("ReleaseDevice", sender, major, minor, "OK")
             /\ devices' = session_device_free(devices, sd)
             /\ fds' = close_nointr_nofail(fds, sd)
             /\ controller' = IF devices' = {} THEN NoController ELSE controller

\* ReleaseDevice(major, minor)
method_release_device(sender, major, minor) ==
    LET dev == makedev(major, minor)
        sd == hashmap_get(devices, dev)
    IN  IF ~session_is_controller(controller, sender)
        THEN last' = DevRequest("ReleaseDevice", sender, major, minor, "NotController")
             /\ Unchanged
        ELSE IF sd = NoDevice
        THEN last' = DevRequest("ReleaseDevice", sender, major, minor, "DeviceNotTaken")
             /\ Unchanged
        ELSE /\ last' = DevRequest("ReleaseDevice", sender, major, minor, "OK")
             /\ devices' = session_device_free(devices, sd)
             /\ fds' = close_nointr_nofail(fds, sd)
             /\ UNCHANGED controller

\* method_pause_device_complete without the session_is_controller() test
method_pause_device_complete_unchecked(sender, major, minor) ==
    LET dev == makedev(major, minor)
        sd == hashmap_get(devices, dev)
    IN  IF sd = NoDevice
        THEN last' = DevRequest("PauseDeviceComplete", sender, major, minor, "DeviceNotTaken")
             /\ Unchanged
        ELSE /\ last' = DevRequest("PauseDeviceComplete", sender, major, minor, "OK")
             /\ devices' = session_device_complete_pause(devices, sd)
             /\ UNCHANGED <<controller, fds>>

\* PauseDeviceComplete(major, minor)
method_pause_device_complete(sender, major, minor) ==
    LET dev == makedev(major, minor)
        sd == hashmap_get(devices, dev)
    IN  IF ~session_is_controller(controller, sender)
        THEN last' = DevRequest("PauseDeviceComplete", sender, major, minor, "NotController")
             /\ Unchanged
        ELSE IF sd = NoDevice
        THEN last' = DevRequest("PauseDeviceComplete", sender, major, minor, "DeviceNotTaken")
             /\ Unchanged
        ELSE /\ last' = DevRequest("PauseDeviceComplete", sender, major, minor, "OK")
             /\ devices' = session_device_complete_pause(devices, sd)
             /\ UNCHANGED <<controller, fds>>

----------------------------------------------------------------------------
(* Idle hint, kill, lock and the signals of the session *)

\* the record of a request that is not about the lease table: its string,
\* number and boolean argument or result come on top of the common fields
SessionRequest(op, sender, resolved, reply, str, num, flag) ==
    [op |-> op, sender |-> sender, force |-> FALSE, major |-> -1, minor |-> -1,
     resolved |-> resolved, before |-> controller, reply |-> reply, fd |-> -1,
     inactive |-> FALSE, str |-> str, num |-> num, flag |-> flag]

\* something that happens to the session without a request
Event(op) == SessionRequest(op, "none", TRUE, "none", "", 0, FALSE)

\* CLOCK_REALTIME is ahead of CLOCK_MONOTONIC by the time of boot
RealtimeOffset == 100

\* dual_timestamp_get(): both clocks read at the same instant
dual_timestamp_get(t) == [realtime |-> t + RealtimeOffset, monotonic |-> t]

\* a signal on the bus, with s->started as it was when the signal went out
Signal(name, st) == [signal |-> name, started |-> st]

\* the outcome of a function that may emit: its return value and the signal
\* last emitted
Emission(r, e) == [r |-> r, emitted |-> e]

\* session_send_signal(): SessionNew or SessionRemoved on the manager object
session_send_signal(st, new_session, memOk) ==
    IF ~memOk THEN Emission(-12, emitted)
    ELSE Emission(0, Signal(IF new_session THEN "SessionNew" ELSE "SessionRemoved", st))

\* session_send_changed(): PropertiesChanged, once the session has started
session_send_changed(st, memOk) ==
    IF ~st THEN Emission(0, emitted)
    ELSE IF ~memOk THEN Emission(-12, emitted)
    ELSE Emission(0, Signal("PropertiesChanged", st))

\* session_send_lock(): Lock or Unlock on the session object
session_send_lock(st, lock, memOk) ==
    IF ~memOk THEN Emission(-12, emitted)
    ELSE Emission(0, Signal(IF lock THEN "Lock" ELSE "Unlock", st))

\* session_set_idle_hint(): on a transition of the hint both timestamps are
\* taken and the change is announced
session_set_idle_hint(b, memOk) ==
    IF idle_hint = b
    THEN UNCHANGED <<idle_hint, idle_hint_timestamp, emitted>>
    ELSE /\ idle_hint' = b
         /\ idle_hint_timestamp' = dual_timestamp_get(now)
         /\ emitted' = session_send_changed(started, memOk).emitted

\* session_get_idle_hint(): the timestamp that goes with the hint
session_get_idle_hint == idle_hint_timestamp

\* method_set_idle_hint without the test of the caller's uid
method_set_idle_hint_unchecked(sender, b, uidOk, memOk) ==
    IF ~uidOk
    THEN /\ last' = SessionRequest("SetIdleHint", sender, FALSE, "Errno", "", 0, b)
         /\ UNCHANGED <<idle_hint, idle_hint_timestamp, emitted>>
    ELSE /\ last' = SessionRequest("SetIdleHint", sender, TRUE, "OK", "", 0, b)
         /\ session_set_idle_hint(b, memOk)

\* SetIdleHint(b)
method_set_idle_hint(sender, b, uidOk, memOk) ==
    LET uid == sd_bus_get_owner_uid(sender)
    IN  IF ~uidOk
        THEN /\ last' = SessionRequest("SetIdleHint", sender, FALSE, "Errno", "", 0, b)
             /\ UNCHANGED <<idle_hint, idle_hint_timestamp, emitted>>
        ELSE IF uid # 0 /\ uid # OwnerUid
        THEN /\ last' = SessionRequest("SetIdleHint", sender, TRUE, "AccessDenied", "", 0, b)
             /\ UNCHANGED <<idle_hint, idle_hint_timestamp, emitted>>
        ELSE /\ last' = SessionRequest("SetIdleHint", sender, TRUE, "OK", "", 0, b)
             /\ session_set_idle_hint(b, memOk)

\* enum KillWho
KILL_LEADER == "KILL_LEADER"
KILL_ALL == "KILL_ALL"
_KILL_WHO_INVALID == "_KILL_WHO_INVALID"

\* kill_who_from_string()
kill_who_from_string(swho) ==
    IF swho = "leader" THEN KILL_LEADER
    ELSE IF swho = "all" THEN KILL_ALL
    ELSE _KILL_WHO_INVALID

\* the number of signals of <signal.h>, one more than the highest
_NSIG == 65

\* the record of a Kill request: the processes chosen, and whether
\* session_kill() was called
KillRequest(swho, signo, who, reply, dispatched) ==
    SessionRequest("Kill", "none", TRUE, reply, swho, signo, dispatched)
        @@ [who |-> who]

\* session_kill(): the signal is sent, or no process is left to send it to
session_kill(who, signo, killOk) == IF killOk THEN 0 ELSE -3

\* method_kill taking signal 0 for a signal
method_kill_zero(swho, signo, killOk) ==
    LET who == IF swho = "" THEN KILL_ALL ELSE kill_who_from_string(swho)
    IN  IF swho # "" /\ who = _KILL_WHO_INVALID
        THEN last' = KillRequest(swho, signo, who, "InvalidArgument", FALSE)
        ELSE IF signo < 0 \/ signo >= _NSIG
        THEN last' = KillRequest(swho, signo, who, "InvalidArgument", FALSE)
        ELSE IF session_kill(who, signo, killOk) < 0
        THEN last' = KillRequest(swho, signo, who, "Errno", TRUE)
        ELSE last' = KillRequest(swho, signo, who, "OK", TRUE)

\* Kill(who, signal)
method_kill(swho, signo, killOk) ==
    LET who == IF swho = "" THEN KILL_ALL ELSE kill_who_from_string(swho)
    IN  IF swho # "" /\ who = _KILL_WHO_INVALID
        THEN last' = KillRequest(swho, signo, who, "InvalidArgument", FALSE)
        ELSE IF signo <= 0 \/ signo >= _NSIG
        THEN last' = KillRequest(swho, signo, who, "InvalidArgument", FALSE)
        ELSE IF session_kill(who, signo, killOk) < 0
        THEN last' = KillRequest(swho, signo, who, "Errno", TRUE)
        ELSE last' = KillRequest(swho, signo, who, "OK", TRUE)

\* Terminate(): session_stop() stops the session's scope
method_terminate(stopOk) ==
    last' = SessionRequest("Terminate", "none", TRUE,
                           IF stopOk THEN "OK" ELSE "Errno", "", 0, FALSE)

\* Activate(): session_activate() switches the seat to the session
method_activate(activateOk) ==
    last' = SessionRequest("Activate", "none", TRUE,
                           IF activateOk THEN "OK" ELSE "Errno", "", 0, FALSE)

\* Lock() and Unlock(): one handler, the member name says which
method_lock(member, memOk) ==
    LET res == session_send_lock(started, member = "Lock", memOk)
    IN  /\ emitted' = res.emitted
        /\ last' = SessionRequest(member, "none", TRUE,
                                  IF res.r < 0 THEN "Errno" ELSE "OK", "", 0, FALSE)

\* session_start() announcing the session before it marks it started
session_start_announce_first(memOk) ==
    IF started THEN UNCHANGED sigVars
    ELSE /\ emitted' = session_send_signal(started, TRUE, memOk).emitted
         /\ started' = TRUE

\* session_start(): the session is marked started, then announced
session_start(memOk) ==
    IF started THEN UNCHANGED sigVars
    ELSE /\ started' = TRUE
         /\ emitted' = session_send_signal(started', TRUE, memOk).emitted

\* the session stops: it is announced as removed if it ever was as new
session_finalize(memOk) ==
    IF started
    THEN /\ emitted' = session_send_signal(started, FALSE, memOk).emitted
         /\ started' = FALSE
    ELSE UNCHANGED sigVars

\* "IdleSinceHint" and "IdleSinceHintMonotonic"
IdleSinceHint == "IdleSinceHint"
IdleSinceHintMonotonic == "IdleSinceHintMonotonic"

\* property_get_idle_since_hint(): the one timestamp the property names
property_get_idle_since_hint(property) ==
    LET t == session_get_idle_hint
    IN  IF property = IdleSinceHint THEN t.realtime ELSE t.monotonic

\* property_get_idle_hint(): the idle hint as a boolean
property_get_idle_hint == idle_hint

\* what the client holds after reading property: a value read after both were
\* read starts a new pair
ClientReads(property, u) ==
    LET c == IF client.realtime # -1 /\ client.monotonic # -1 THEN NothingRead ELSE client
    IN  IF property = IdleSinceHint
        THEN [c EXCEPT !.realtime = u]
        ELSE [c EXCEPT !.monotonic = u]

\* what a call of session_send_create_reply() leaves: its return value,
\* whether s->create_message still holds a request, and the reply sent
CreateReply(r, pending, sent) == [r |-> r, pending |-> pending, sent |-> sent]

\* session_send_create_reply() taking the request out of the slot only when it
\* replies
session_send_create_reply_slot_kept(pending, error, fifoOk, memOk, sendOk) ==
    IF ~pending THEN CreateReply(0, FALSE, "none")
    ELSE IF error
    THEN IF sendOk THEN CreateReply(1, FALSE, "error") ELSE CreateReply(-107, FALSE, "none")
    ELSE IF ~fifoOk THEN CreateReply(-24, TRUE, "none")
    ELSE IF ~memOk THEN CreateReply(-12, TRUE, "none")
    ELSE IF sendOk THEN CreateReply(1, FALSE, "return")
    ELSE CreateReply(-107, FALSE, "none")

\* session_send_create_reply(): the request is taken out of the slot first;
\* then the error is sent, or the fifo is made, the path built and the result
\* sent
session_send_create_reply(pending, error, fifoOk, memOk, sendOk) ==
    IF ~pending THEN CreateReply(0, FALSE, "none")
    ELSE IF error
    THEN IF sendOk THEN CreateReply(1, FALSE, "error") ELSE CreateReply(-107, FALSE, "none")
    ELSE IF ~fifoOk THEN CreateReply(-24, FALSE, "none")
    ELSE IF ~memOk THEN CreateReply(-12, FALSE, "none")
    ELSE IF sendOk THEN CreateReply(1, FALSE, "return")
    ELSE CreateReply(-107, FALSE, "none")

Init ==
    /\ controller = NoController
    /\ devices = {}
    /\ fds = {}
    /\ last = NoRequest
    /\ sessions = {}
    /\ found = NoLookup
    /\ nodes = NoEnumeration
    /\ pausing = {}
    /\ alive = TRUE
    /\ taker = {}
    /\ idle_hint = FALSE
    /\ idle_hint_timestamp = [realtime |-> 0, monotonic |-> 0]
    /\ now = 1
    /\ client = NothingRead
    /\ started = FALSE
    /\ emitted = NoSignal
    /\ create_message = {}
    /\ replies = <<>>

\* what every request to the lease table shares: the session exists, a lease
\* that leaves the table takes its pending pause with it, the rest is untouched
DeviceRequest ==
    /\ alive
    /\ pausing' = {dev \in pausing : \E sd \in devices' : sd.dev = dev}
    /\ taker' = {p \in taker : \E sd \in devices' : sd \in devices /\ sd.dev = p[1]}
                 \cup {<<sd.dev, last'.sender>> :
                          sd \in {x \in devices' : hashmap_get(devices, x.dev) = NoDevice}}
    /\ UNCHANGED <<alive, addrVars, idleVars, sigVars, createVars>>

TakeControl == \E sender \in Senders, force \in BOOLEAN, uidOk \in BOOLEAN :
    method_take_control(sender, force, uidOk) /\ DeviceRequest

ReleaseControl == \E sender \in Senders :
    method_release_control(sender) /\ DeviceRequest

TakeDevice ==
    \E sender \in Senders, d \in DevIds,
       openOk \in BOOLEAN, act \in BOOLEAN, sendOk \in BOOLEAN :
        method_take_device(sender, d[1], d[2], openOk, act, sendOk) /\ DeviceRequest

ReleaseDevice == \E sender \in Senders, d \in DevIds :
    method_release_device(sender, d[1], d[2]) /\ DeviceRequest

PauseDeviceComplete == \E sender \in Senders, d \in DevIds :
    /\ method_pause_device_complete(sender, d[1], d[2])
    /\ alive
    /\ pausing' = IF last'.reply = "OK" THEN pausing \ {makedev(d[1], d[2])} ELSE pausing
    /\ UNCHANGED <<alive, taker, addrVars, idleVars, sigVars, createVars>>

\* the session comes back to the foreground: its stopped devices are resumed
ResumeAll ==
    /\ \E sd \in devices : ~sd.active
    /\ devices' = session_device_resume_all(devices)
    /\ last' = Request("ResumeDevice", "none", FALSE, -1, -1, TRUE, controller, "none", -1, FALSE)
    /\ alive
    /\ UNCHANGED <<controller, fds, pausing, alive, taker, addrVars, idleVars, sigVars, createVars>>

\* the session goes to the background: the controller is asked, with the
\* PauseDevice signal, to let go of a device in use; the device stays in use
\* until the controller acknowledges
Pause == \E sd \in devices :
    /\ alive
    /\ sd.active
    /\ sd.dev \notin pausing
    /\ pausing' = pausing \cup {sd.dev}
    /\ last' = Request("PauseDevice", "none", FALSE, sd.dev[1], sd.dev[2], TRUE,
                       controller, "none", -1, FALSE)
    /\ UNCHANGED <<controller, devices, fds, alive, taker, addrVars, idleVars, sigVars, createVars>>

\* the session is destroyed: the record of it says how many leases it held
SessionFree ==
    LET s == session_free(controller, devices, fds)
    IN  /\ alive
        /\ alive' = FALSE
        /\ controller' = s.controller
        /\ devices' = s.devices
        /\ fds' = s.fds
        /\ pausing' = {}
        /\ taker' = {}
        /\ last' = Request("SessionFree", "none", FALSE, -1, -1, TRUE, controller,
                           "none", -1, FALSE) @@ [num |-> Cardinality(devices)]
        /\ UNCHANGED <<addrVars, idleVars, sigVars, createVars>>

Next ==
    \/ TakeControl
    \/ ReleaseControl
    \/ TakeDevice
    \/ ReleaseDevice
    \/ PauseDeviceComplete
    \/ ResumeAll
    \/ Pause
    \/ SessionFree

Spec == Init /\ [][Next]_vars

\* the manager puts a session into its table
AddSession == \E id \in SessionIds \ sessions :
    /\ Cardinality(sessions) < MaxSessions
    /\ sessions' = sessions \cup {id}
    /\ found' = NoLookup
    /\ nodes' = NoEnumeration
    /\ UNCHANGED <<devVars, last, idleVars, sigVars, createVars>>

\* the manager takes a session out of its table
RemoveSession == \E id \in sessions :
    /\ sessions' = sessions \ {id}
    /\ found' = NoLookup
    /\ nodes' = NoEnumeration
    /\ UNCHANGED <<devVars, last, idleVars, sigVars, createVars>>

\* the bus library resolves the object path of a request
ObjectFindOf(paths, callers) ==
    \E path \in paths, caller \in callers :
        LET res == session_object_find(sessions, path, caller)
        IN  /\ found' = [path |-> path, caller |-> caller, r |-> res.r,
                         session |-> res.session]
            /\ nodes' = NoEnumeration
            /\ UNCHANGED <<devVars, last, sessions, idleVars, sigVars, createVars>>

ObjectFind ==
    ObjectFindOf({session_bus_path(id) : id \in SessionIds} \cup {SelfPath} \cup OtherPaths,
                 Callers(sessions))

\* the bus library asks for the objects below the session prefix
NodeEnumerator ==
    \E order \in Orders(sessions), failAt \in 0 .. 2 * Cardinality(sessions) :
        LET res == session_node_enumerator(order, failAt)
        IN  /\ nodes' = [order |-> order, failAt |-> failAt, r |-> res.r,
                         nodes |-> res.nodes, set |-> res.set]
            /\ found' = NoLookup
            /\ UNCHANGED <<devVars, last, sessions, idleVars, sigVars, createVars>>

\* a client sets the idle hint
SetIdleHint == \E sender \in Senders, b \in BOOLEAN, uidOk \in BOOLEAN, memOk \in BOOLEAN :
    /\ alive
    /\ method_set_idle_hint(sender, b, uidOk, memOk)
    /\ UNCHANGED <<devVars, addrVars, now, client, started, createVars>>

\* a client reads one of the two idle timestamps
GetIdleSinceHint == \E property \in {IdleSinceHint, IdleSinceHintMonotonic} :
    LET u == property_get_idle_since_hint(property)
    IN  /\ alive
        /\ client' = ClientReads(property, u)
        /\ last' = SessionRequest("Get", "none", TRUE, "OK", property, u, FALSE)
        /\ UNCHANGED <<devVars, addrVars, idle_hint, idle_hint_timestamp, now, sigVars, createVars>>

\* time passes
Tick ==
    /\ now < MaxTime
    /\ now' = now + 1
    /\ last' = Event("Tick")
    /\ UNCHANGED <<devVars, addrVars, idle_hint, idle_hint_timestamp, client, sigVars, createVars>>

\* the session manager starts the session
SessionStart == \E memOk \in BOOLEAN :
    /\ alive
    /\ session_start(memOk)
    /\ last' = Event("SessionStart")
    /\ UNCHANGED <<devVars, addrVars, idleVars, createVars>>

\* the session manager stops the session
SessionFinalize == \E memOk \in BOOLEAN :
    /\ alive
    /\ session_finalize(memOk)
    /\ last' = Event("SessionFinalize")
    /\ UNCHANGED <<devVars, addrVars, idleVars, createVars>>

\* the targets and signal numbers of the Kill requests
KillTargets == {"", "all", "leader", "bogus"}
SigNums == {-1, 0, 1, 9, _NSIG - 1, _NSIG, _NSIG + 1}

Kill == \E swho \in KillTargets, signo \in SigNums, killOk \in BOOLEAN :
    /\ alive
    /\ method_kill(swho, signo, killOk)
    /\ UNCHANGED <<devVars, addrVars, idleVars, sigVars, createVars>>

Terminate == \E stopOk \in BOOLEAN :
    /\ alive
    /\ method_terminate(stopOk)
    /\ UNCHANGED <<devVars, addrVars, idleVars, sigVars, createVars>>

Activate == \E activateOk \in BOOLEAN :
    /\ alive
    /\ method_activate(activateOk)
    /\ UNCHANGED <<devVars, addrVars, idleVars, sigVars, createVars>>

Lock == \E member \in {"Lock", "Unlock"}, memOk \in BOOLEAN :
    /\ alive
    /\ method_lock(member, memOk)
    /\ UNCHANGED <<devVars, addrVars, idleVars, started, createVars>>

\* a client reads the property IdleHint
GetIdleHint ==
    /\ alive
    /\ last' = SessionRequest("Get", "none", TRUE, "OK", "IdleHint", 0, property_get_idle_hint)
    /\ UNCHANGED <<devVars, addrVars, idleVars, sigVars, createVars>>

NextSignal == Kill \/ Terminate \/ Activate \/ Lock \/ SessionStart \/ SessionFinalize

SpecSignal == Init /\ [][NextSignal]_vars

NextIdle == SetIdleHint \/ GetIdleSinceHint \/ Tick \/ SessionStart

SpecIdle == Init /\ [][NextIdle]_vars

\* the caller of the lookups of the frame: the connection of the request, of a
\* process that belongs to no session
FrameCaller == [current |-> TRUE, pidOk |-> TRUE, pidSession |-> NoSession, memOk |-> TRUE]

\* the whole interface of one session: every request on the controller and its
\* devices, with the teardown, next to one request of each other kind, a
\* property read, a path lookup and the clock
NextFrame ==
    \/ TakeControl
    \/ ReleaseControl
    \/ TakeDevice
    \/ ReleaseDevice
    \/ PauseDeviceComplete
    \/ SessionFree
    \/ Terminate
    \/ Activate
    \/ Lock /\ last'.reply = "OK"
    \/ SetIdleHint /\ last'.sender = "A" /\ last'.flag /\ last'.reply = "OK"
    \/ Kill /\ last'.str = "" /\ last'.num = 9
    \/ GetIdleHint
    \/ ObjectFindOf({SelfPath}, {FrameCaller})
    \/ Tick

SpecFrame == Init /\ [][NextFrame]_vars

\* bus_manager_create_session() parks the request of the client in the new
\* session until the scope of the session is there
CreateSession == \E id \in sessions \ DOMAIN replies :
    /\ create_message' = create_message \cup {id}
    /\ replies' = replies @@ (id :> 0)
    /\ last' = SessionRequest("CreateSession", "none", TRUE, "none", id, 0, FALSE)
    /\ UNCHANGED <<devVars, addrVars, idleVars, sigVars>>

\* the job of the scope ends, well or with an error, or the session is
\* started: each time the parked request is to be answered
SendCreateReply ==
    \E id \in sessions, error \in BOOLEAN, fifoOk \in BOOLEAN, memOk \in BOOLEAN,
       sendOk \in BOOLEAN :
        LET res == session_send_create_reply(id \in create_message, error, fifoOk, memOk,
                                             sendOk)
        IN  /\ create_message' = IF res.pending THEN create_message \cup {id}
                                 ELSE create_message \ {id}
            /\ replies' = IF res.sent = "none" THEN replies
                          ELSE [replies EXCEPT ![id] = @ + 1]
            /\ last' = SessionRequest("SendCreateReply", "none", TRUE, res.sent, id, res.r,
                                      id \in create_message)
            /\ UNCHANGED <<devVars, addrVars, idleVars, sigVars>>

NextCreate == AddSession \/ CreateSession \/ SendCreateReply

SpecCreate == Init /\ [][NextCreate]_vars

NextAddr == AddSession \/ RemoveSession \/ ObjectFind \/ NodeEnumerator

SpecAddr == Init /\ [][NextAddr]_vars
----------------------------------------------------------------------------
(* Properties *)

ReqDev(req) == makedev(req.major, req.minor)

Uid(req) == sd_bus_get_owner_uid(req.sender)

\* C1: a session's lease table never holds two entries for the same device
\* identifier (major, minor).
C1_OneLeasePerDevice ==
    \A a, b \in devices : a.dev = b.dev => a = b

\* a second TakeDevice for a leased device has just been turned down and the
\* lease is still in the table
C1_Witness ==
    /\ last.op = "TakeDevice"
    /\ last.reply = "DeviceAlreadyTaken"
    /\ \E sd \in devices : sd.dev = ReqDev(last)

\* C2: a session has one controller slot, and TakeControl(force=false) from a
\* sender other than the bound controller whose uid is not 0 (the owner's uid
\* included) is answered AccessDenied and leaves the binding as it was.
C2_NoForceKeepsBinding ==
    [][(/\ last'.op = "TakeControl"
        /\ last'.resolved
        /\ ~last'.force
        /\ controller # NoController
        /\ last'.sender # controller
        /\ Uid(last') # 0)
       => (/\ last'.reply = "AccessDenied"
           /\ controller' = controller
           /\ controller' \in Senders)]_vars

\* a second connection of the session's owner asked without force while another
\* connection held the binding, and was denied
C2_Witness ==
    /\ last.op = "TakeControl"
    /\ ~last.force
    /\ last.resolved
    /\ Uid(last) = OwnerUid
    /\ last.before \in Senders \ {last.sender}
    /\ last.reply = "AccessDenied"
    /\ controller = last.before

\* C3: TakeControl is answered AccessDenied unless the caller's uid is 0, or it
\* is the owner's uid and force is false; an unprivileged caller asking for
\* force is always denied and the binding does not change.
C3_TakeControlAccess ==
    [][(/\ last'.op = "TakeControl"
        /\ last'.resolved
        /\ Uid(last') # 0
        /\ (last'.force \/ Uid(last') # OwnerUid))
       => (/\ last'.reply = "AccessDenied"
           /\ UNCHANGED <<controller, devices, fds>>)]_vars

\* the owner asked for force on a session without a controller and was denied
C3_Witness ==
    /\ last.op = "TakeControl"
    /\ last.force
    /\ last.resolved
    /\ Uid(last) = OwnerUid
    /\ last.before = NoController
    /\ last.reply = "AccessDenied"
    /\ controller = NoController

\* C4 as stated: while connection A of the owner holds the binding, connection B
\* of the same unprivileged uid calling TakeControl(force=true) succeeds and
\* becomes the controller.
C4_OwnerForceEvicts ==
    [][(/\ controller = "A"
        /\ last'.op = "TakeControl"
        /\ last'.sender = "B"
        /\ last'.force
        /\ last'.resolved)
       => (last'.reply = "OK" /\ controller' = "B")]_vars

\* C4 amended: while a connection of the owner holds the binding,
\* TakeControl(force=true) from another connection evicts it only when the
\* caller's uid is 0; a caller with the owner's (or any other unprivileged) uid
\* is answered AccessDenied and the binding stays.  After an eviction a
\* ReleaseControl from any other connection than the new controller, the
\* evicted one included, is answered NotController and changes nothing.
C4_ForceTakeover ==
    [][/\ (/\ controller \in Senders
           /\ sd_bus_get_owner_uid(controller) = OwnerUid
           /\ last'.op = "TakeControl"
           /\ last'.sender # controller
           /\ last'.force
           /\ last'.resolved)
          => IF Uid(last') = 0
             THEN last'.reply = "OK" /\ controller' = last'.sender
             ELSE last'.reply = "AccessDenied" /\ controller' = controller
       /\ (/\ last.op = "TakeControl"
           /\ last.force
           /\ last.reply = "OK"
           /\ last.before \in Senders \ {last.sender}
           /\ last'.op = "ReleaseControl"
           /\ last'.sender # last.sender)
          => (/\ last'.reply = "NotController"
              /\ controller' = last.sender
              /\ UNCHANGED <<devices, fds>>)]_vars

\* root's connection R took the session over with force while connection A of
\* the owner held the binding, and A is evicted
C4_Witness ==
    /\ last.op = "TakeControl"
    /\ last.sender = "R"
    /\ last.force
    /\ last.before = "A"
    /\ last.reply = "OK"
    /\ controller = "R"

\* C5: ReleaseControl from a sender that is not the bound controller (also
\* when there is no binding) is answered NotController and changes nothing;
\* from the controller it succeeds and leaves the session without a binding,
\* so that session_is_controller is false for every sender.
C5_ReleaseControl ==
    [][last'.op = "ReleaseControl"
       => IF session_is_controller(controller, last'.sender)
          THEN /\ last'.reply = "OK"
               /\ controller' = NoController
               /\ \A sender \in Senders : ~session_is_controller(controller', sender)
          ELSE /\ last'.reply = "NotController"
               /\ UNCHANGED <<controller, devices, fds>>]_vars

\* the controller released control and the session has no binding left
C5_Witness ==
    /\ last.op = "ReleaseControl"
    /\ last.reply = "OK"
    /\ last.before = last.sender
    /\ controller = NoController

\* C6: TakeDevice from a sender that is not the controller is answered
\* NotController, leased device or not; from the controller, for a device that
\* already has a lease, it is answered DeviceAlreadyTaken; in both cases no
\* handle is opened and the table is left as it was.
C6_TakeDeviceRejects ==
    [][last'.op = "TakeDevice"
       => /\ ~session_is_controller(controller, last'.sender)
             => (/\ last'.reply = "NotController"
                 /\ UNCHANGED <<controller, devices, fds>>)
          /\ (/\ session_is_controller(controller, last'.sender)
              /\ hashmap_get(devices, ReqDev(last')) # NoDevice)
             => (/\ last'.reply = "DeviceAlreadyTaken"
                 /\ UNCHANGED <<controller, devices, fds>>)]_vars

\* a sender that is not the controller asked for a device that is leased
C6_Witness ==
    /\ last.op = "TakeDevice"
    /\ last.reply = "NotController"
    /\ last.sender # controller
    /\ hashmap_get(devices, ReqDev(last)) # NoDevice

\* C7: ReleaseDevice from a non-controller is answered NotController, for a
\* device without a lease DeviceNotTaken, both without a change; for a leased
\* device the entry leaves the table and its handle is closed.  Right after a
\* successful release the same controller's TakeDevice for that device is
\* never answered DeviceAlreadyTaken or NotController (it succeeds unless
\* opening the device or sending the reply fails), and its second
\* ReleaseDevice is answered DeviceNotTaken.
C7_ReleaseDevice ==
    [][/\ last'.op = "ReleaseDevice"
          => LET sd == hashmap_get(devices, ReqDev(last'))
             IN  IF ~session_is_controller(controller, last'.sender)
                 THEN /\ last'.reply = "NotController"
                      /\ UNCHANGED <<controller, devices, fds>>
                 ELSE IF sd = NoDevice
                 THEN /\ last'.reply = "DeviceNotTaken"
                      /\ UNCHANGED <<controller, devices, fds>>
                 ELSE /\ last'.reply = "OK"
                      /\ devices' = devices \ {sd}
                      /\ hashmap_get(devices', ReqDev(last')) = NoDevice
                      /\ fds' = fds \ {sd.fd}
                      /\ sd.fd \in fds
                      /\ UNCHANGED controller
       /\ (/\ last.op = "ReleaseDevice"
           /\ last.reply = "OK"
           /\ last'.sender = last.sender
           /\ ReqDev(last') = ReqDev(last))
          => /\ last'.op = "TakeDevice"
                => /\ last'.reply \in {"OK", "Errno", "ReplyFailed"}
                   /\ last'.reply = "OK"
                      => \E sd \in devices' : sd.dev = ReqDev(last') /\ sd.fd = last'.fd
             /\ last'.op = "ReleaseDevice" => last'.reply = "DeviceNotTaken"]_vars

\* the controller released one of two leased devices
C7_Witness ==
    /\ last.op = "ReleaseDevice"
    /\ last.reply = "OK"
    /\ hashmap_get(devices, ReqDev(last)) = NoDevice
    /\ devices # {}

\* C8: PauseDeviceComplete from a non-controller is answered NotController and
\* for a device without a lease DeviceNotTaken; whatever the answer, the set of
\* leased devices and their handles stay as they were.
C8_PauseDeviceComplete ==
    [][last'.op = "PauseDeviceComplete"
       => /\ {[dev |-> sd.dev, fd |-> sd.fd] : sd \in devices'}
                = {[dev |-> sd.dev, fd |-> sd.fd] : sd \in devices}
          /\ Cardinality(devices') = Cardinality(devices)
          /\ UNCHANGED <<controller, fds>>
          /\ ~session_is_controller(controller, last'.sender)
                => (last'.reply = "NotController" /\ UNCHANGED devices)
          /\ (/\ session_is_controller(controller, last'.sender)
              /\ hashmap_get(devices, ReqDev(last')) = NoDevice)
                => (last'.reply = "DeviceNotTaken" /\ UNCHANGED devices)
          /\ (/\ session_is_controller(controller, last'.sender)
              /\ hashmap_get(devices, ReqDev(last')) # NoDevice)
                => last'.reply = "OK"]_vars

\* the controller acknowledged the pause of a leased device, which is now
\* stopped and still in the table
C8_Witness ==
    /\ last.op = "PauseDeviceComplete"
    /\ last.reply = "OK"
    /\ hashmap_get(devices, ReqDev(last)) # NoDevice
    /\ ~hashmap_get(devices, ReqDev(last)).active

\* C9: when TakeDevice has opened the device and inserted the lease but the
\* reply cannot be sent, the lease is rolled back: table and open handles are
\* what they were before the request, the device has no entry, and the
\* controller's next TakeDevice for it is not answered DeviceAlreadyTaken.
C9_ReplyFailureRollsBack ==
    [][/\ (last'.op = "TakeDevice" /\ last'.reply = "ReplyFailed")
          => /\ devices' = devices
             /\ fds' = fds
             /\ hashmap_get(devices', ReqDev(last')) = NoDevice
       /\ (/\ last.op = "TakeDevice"
           /\ last.reply = "ReplyFailed"
           /\ last'.op = "TakeDevice"
           /\ last'.sender = last.sender
           /\ ReqDev(last') = ReqDev(last))
          => last'.reply \in {"OK", "Errno", "ReplyFailed"}]_vars

\* the reply to a TakeDevice could not be sent while another device was leased
C9_Witness ==
    /\ last.op = "TakeDevice"
    /\ last.reply = "ReplyFailed"
    /\ session_is_controller(controller, last.sender)
    /\ devices # {}
    /\ hashmap_get(devices, ReqDev(last)) = NoDevice

\* C10 as stated: for every session in the table and every caller, looking up
\* the path session_bus_path() gives for it finds that same session (memory
\* permitting).
C10_RoundTrip ==
    \A id \in sessions : \A caller \in Callers(sessions) :
        caller.memOk
            => session_object_find(sessions, session_bus_path(id), caller) = Found(1, id)

\* C11: session_object_find answers 0 (nothing found), never an error, and
\* sets no object when the path lacks the session prefix, when the "self"
\* alias cannot be resolved (no message being dispatched, sender's pid unknown,
\* or the caller's process in no session), and when no session has the
\* identifier the path decodes to.
C11_NothingFound ==
    found.path # <<>>
        => LET c == found.caller
               noPrefix == ~HasPrefix(found.path, SessionPrefix)
               noAlias == /\ found.path = SelfPath
                          /\ (~c.current \/ ~c.pidOk \/ c.pidSession = NoSession)
               noSession == /\ found.path # SelfPath
                            /\ HasPrefix(found.path, SessionPrefix)
                            /\ c.memOk
                            /\ bus_path_unescape(StripPrefix(found.path, SessionPrefix))
                                   \notin sessions
           IN  (noPrefix \/ noAlias \/ noSession)
                   => (found.r = 0 /\ found.session = NoSession)

\* the alias was asked for by a sender whose pid the bus does not know, while
\* the table holds a session
C11_Witness ==
    /\ found.path = SelfPath
    /\ found.caller.current
    /\ ~found.caller.pidOk
    /\ found.caller.pidSession # NoSession
    /\ found.r = 0

\* C12: session_node_enumerator either returns 1 with exactly one path per
\* session of the table, in the order visited, or, when an allocation fails on
\* the way, returns an error and hands no list over, not even a partial one.
C12_AllOrNothing ==
    nodes.r # 0
        => IF nodes.failAt = 0
           THEN /\ nodes.r = 1
                /\ nodes.set
                /\ Len(nodes.nodes) = Cardinality(sessions)
                /\ {nodes.nodes[i] : i \in DOMAIN nodes.nodes}
                       = {session_bus_path(id) : id \in sessions}
                /\ \A i \in DOMAIN nodes.nodes : nodes.nodes[i] = session_bus_path(nodes.order[i])
           ELSE /\ nodes.r < 0
                /\ ~nodes.set
                /\ nodes.nodes = <<>>

\* the allocation for the second session failed after the path of the first
\* was already in the list
C12_Witness ==
    /\ nodes.failAt > 2
    /\ Len(nodes.order) = 2
    /\ nodes.r < 0
    /\ ~nodes.set

\* C13: SetIdleHint changes the idle hint or its timestamps only for a caller
\* whose uid is 0 or the uid of the session's user, and answers it with
\* success; a caller with any other uid gets AccessDenied and the hint and
\* both its timestamps stay as they were.
C13_SetIdleHintAccess ==
    [][last'.op = "SetIdleHint" =>
        LET uid == Uid(last')
            allowed == uid = 0 \/ uid = OwnerUid
        IN  /\ (idle_hint' # idle_hint \/ idle_hint_timestamp' # idle_hint_timestamp)
                => allowed /\ last'.reply = "OK" /\ idle_hint' = last'.flag
            /\ (last'.resolved /\ ~allowed)
                => /\ last'.reply = "AccessDenied"
                   /\ UNCHANGED <<idle_hint, idle_hint_timestamp>>
            /\ (last'.resolved /\ allowed)
                => last'.reply = "OK" /\ idle_hint' = last'.flag]_vars

\* a caller of another user was refused while the hint set by the owner at
\* time 2 stands
C13_Witness ==
    /\ last.op = "SetIdleHint"
    /\ last.sender = "D"
    /\ last.flag = FALSE
    /\ last.reply = "AccessDenied"
    /\ idle_hint
    /\ idle_hint_timestamp = dual_timestamp_get(2)

\* the signal numbers that name a signal
ValidSignal(signo) == signo > 0 /\ signo < _NSIG

\* C14: Kill calls the session's kill operation only for a valid request: an
\* empty target stands for all processes, a target that is neither empty nor
\* a symbolic value is answered InvalidArgument, and so is a signal number
\* that is <= 0 or >= the signal limit; a rejected request signals nothing.
C14_KillValidated ==
    last.op = "Kill" =>
        LET validWho == last.str \in {"", "all", "leader"}
        IN  /\ last.flag <=> validWho /\ ValidSignal(last.num)
            /\ last.flag /\ last.str \in {"", "all"} => last.who = KILL_ALL
            /\ last.flag /\ last.str = "leader" => last.who = KILL_LEADER
            /\ ~validWho \/ ~ValidSignal(last.num)
                => last.reply = "InvalidArgument" /\ ~last.flag
            /\ last.reply = "InvalidArgument" => ~validWho \/ ~ValidSignal(last.num)

\* Kill("", 9) was dispatched to all processes of the session
C14_Witness ==
    /\ last.op = "Kill"
    /\ last.str = ""
    /\ last.num = 9
    /\ last.flag
    /\ last.who = KILL_ALL
    /\ last.reply = "OK"

\* C15: SessionNew and SessionRemoved go out only for a session that has
\* started: whenever one of them is emitted, s->started was true at the call
\* of session_send_signal.
C15_SignalsAfterStart ==
    emitted.signal \in {"SessionNew", "SessionRemoved"} => emitted.started

\* the session was started, announced, and announced as removed when it
\* stopped
C15_Witness ==
    /\ emitted = Signal("SessionRemoved", TRUE)
    /\ ~started
    /\ last.op = "SessionFinalize"

\* the pairs of timestamps that one transition of the idle hint leaves, and
\* the pair of a hint that never changed
TransitionPairs ==
    {dual_timestamp_get(t) : t \in 1 .. MaxTime} \cup {[realtime |-> 0, monotonic |-> 0]}

\* C16: the wall-clock value and the monotonic value a client has read from
\* IdleSinceHint and IdleSinceHintMonotonic belong to the same transition of
\* the idle hint, also when SetIdleHint requests come between the two reads.
C16_ConsistentPair ==
    (client.realtime # -1 /\ client.monotonic # -1) => client \in TransitionPairs

\* the lease of device dev in table h, if it has one
LeaseOf(h, dev) == {sd \in h : sd.dev = dev}

C18_TeardownReleases ==
    ~alive => devices = {} /\ fds = {} /\ controller = NoController /\ pausing = {}

\* the session was destroyed while A was its controller and held two leases
C18_Witness ==
    /\ ~alive
    /\ last.op = "SessionFree"
    /\ last.before = "A"
    /\ last.num = 2
    /\ devices = {}
    /\ fds = {}

\* the requests and events that are no TakeControl, ReleaseControl or teardown
OtherOps ==
    {"Terminate", "Activate", "Lock", "Unlock", "SetIdleHint", "Kill", "Get", "Tick",
     "TakeDevice", "ReleaseDevice", "PauseDeviceComplete"}

\* C19: the controller binding changes only by a successful TakeControl (to
\* its sender), a successful ReleaseControl of the controller or the teardown
\* of the session (to none); Terminate, Activate, Lock, Unlock, SetIdleHint,
\* Kill, TakeDevice, ReleaseDevice, PauseDeviceComplete, a property read, a
\* path lookup and the passage of time leave it bound to the same sender.
C19_BindingStays ==
    [][/\ controller' # controller =>
            \/ /\ last'.op = "TakeControl"
               /\ last'.reply = "OK"
               /\ controller' = last'.sender
            \/ /\ last'.op = "ReleaseControl"
               /\ last'.reply = "OK"
               /\ last'.sender = controller
               /\ controller' = NoController
            \/ /\ last'.op = "SessionFree"
               /\ controller' = NoController
       /\ (last' # last /\ last'.op \in OtherOps) => controller' = controller
       /\ (found' # found \/ now' # now) => controller' = controller]_vars

\* A has been the controller since time 1 and holds a lease; the clock has
\* advanced, the idle hint was set, the session was locked, a path was looked
\* up and the last request was a Kill
C19_Witness ==
    /\ controller = "A"
    /\ devices # {}
    /\ now = MaxTime
    /\ idle_hint
    /\ idle_hint_timestamp = dual_timestamp_get(1)
    /\ emitted.signal = "Lock"
    /\ found.path = SelfPath
    /\ last.op = "Kill"
    /\ last.before = "A"

\* C20: a TakeControl, ReleaseControl, TakeDevice, ReleaseDevice or
\* PauseDeviceComplete that is not answered with success (AccessDenied,
\* NotController, DeviceAlreadyTaken, DeviceNotTaken, or the error of a
\* collaborator such as the device that cannot be opened) leaves the
\* controller binding, the lease table and the open handles as they were.
C20_ErrorsChangeNothing ==
    [][(/\ last'.op \in {"TakeControl", "ReleaseControl", "TakeDevice", "ReleaseDevice",
                         "PauseDeviceComplete"}
        /\ last'.reply # "OK")
       => /\ last'.reply \in {"AccessDenied", "NotController", "DeviceAlreadyTaken",
                              "DeviceNotTaken", "Errno", "ReplyFailed"}
          /\ UNCHANGED <<controller, devices, fds>>]_vars

\* the controller holds a lease and its TakeDevice for another device failed
\* because the device could not be opened
C20_Witness ==
    /\ last.op = "TakeDevice"
    /\ last.reply = "Errno"
    /\ last.sender = controller
    /\ devices # {}
    /\ hashmap_get(devices, ReqDev(last)) = NoDevice

C22_AnsweredOnce ==
    [][/\ \A id \in DOMAIN replies' : replies'[id] <= 1
       /\ (last' # last /\ last'.op = "SendCreateReply") =>
            LET id == last'.str
            IN  /\ id \notin create_message'
                /\ last'.flag = (id \in create_message)
                /\ id \notin create_message =>
                       /\ last'.reply = "none"
                       /\ last'.num = 0
                       /\ replies' = replies
                /\ last'.reply # "none" =>
                       /\ id \in create_message
                       /\ replies[id] = 0
                       /\ replies'[id] = 1]_vars

\* the first call for a session failed before it sent anything, and a later
\* call for the session found the slot empty: it returned 0 and no reply was
\* ever sent
C22_Witness ==
    /\ last.op = "SendCreateReply"
    /\ ~last.flag
    /\ last.num = 0
    /\ last.reply = "none"
    /\ last.str \in DOMAIN replies
    /\ replies[last.str] = 0
    /\ last.str \notin create_message
====
